---- MODULE Spec2Model ----
(***************************************************************************)
(* Model of midi_to_console: a MIDI listener that tracks the notes held,   *)
(* a controller loop and a gadget loop that relay 64-byte HID frames, and  *)
(* the merge of note-state snapshots into input reports.                   *)
(*                                                                         *)
(*   src/src/midi.rs               process_signals, process_callback,      *)
(*                                 MidiMessageData, MidiMessageTypes       *)
(*   src/src/nscontroller.rs       Pitch, InputReport and the lookup tables*)
(*   src/src/threads/gadget.rs     start_gadget                            *)
(*   src/src/threads/controller.rs start_controller                        *)
(*   src/src/device_file.rs        DeviceFile                              *)
(***************************************************************************)
EXTENDS Integers, Sequences, FiniteSets, TLC

VARIABLES
    \* ---- MIDI listener (midi.rs process_signals) ----
    midi_note_on_messages, \* contents of the Arc<Mutex<Vec<MidiMessageData>>>
    lock_held,             \* whether the callback holds the mutex guard
    lpc,                   \* position of the callback closure
    message,               \* the message the callback is handling
    persistent,            \* the callback's local clone of the state
    return_messages,       \* process_callback's return_messages
    \* ---- channels (main.rs) ----
    midi_chan,             \* tx_midi -> rx_midi         : queue of snapshots
    gadget_chan,           \* tx_gadget -> rx_gadget     : queue of frames
    controller_chan,       \* tx_controller -> rx_controller : queue of frames
    \* ---- the two relay loops ----
    gpc,                   \* gadget loop position
    cpc,                   \* controller loop position
    \* ---- history (not read by the program) ----
    n_callbacks,           \* callbacks started
    n_ok,                  \* callbacks that returned Ok
    n_sent,                \* sends made on the note-state channel
    last_drain,            \* what the gadget loop's last drain did
    relay_log,             \* frames read from and handed to the two devices
    \* ---- pure-function harnesses ----
    cb_in,                 \* inputs of a process_callback or MidiMessageData::new
                           \* call, or the messages delivered to the listener
    cb_out,                \* the result of the call, or of each callback
    rep_in,                \* inputs of InputReport::from or of press_one
    rep_out                \* the results

vars == << midi_note_on_messages, lock_held, lpc, message, persistent,
           return_messages, midi_chan, gadget_chan, controller_chan, gpc, cpc,
           n_callbacks, n_ok, n_sent,
           last_drain, relay_log, cb_in, cb_out, rep_in, rep_out >>

-----------------------------------------------------------------------------
(* Bytes and bit operations on u8 *)

Byte == 0..255

RECURSIVE BitOr(_, _)
BitOr(a, b) ==
    IF a = 0 THEN b
    ELSE IF b = 0 THEN a
    ELSE (IF a % 2 = 1 \/ b % 2 = 1 THEN 1 ELSE 0) + 2 * BitOr(a \div 2, b \div 2)

RECURSIVE Shl1(_)
\* 1u8 << offset
Shl1(offset) == IF offset = 0 THEN 1 ELSE (2 * Shl1(offset - 1)) % 256

None == "None"

\* Option<T>: the empty sequence, or the value in a sequence of one
NoValue == << >>
Some(x) == << x >>

-----------------------------------------------------------------------------
(* midi.rs : MidiMessageTypes, MidiMessageData *)

\* enum MidiMessageTypes with its discriminants
MidiMessageTypes ==
    [ NoteOff |-> 8, NoteOn |-> 9, PolyphonicPressure |-> 10,
      ControlChange |-> 11, ProgramChange |-> 12, ChannelPressure |-> 13,
      PitchBend |-> 14 ]

MidiMessageKinds == DOMAIN MidiMessageTypes

\* mutant: an unknown value defaults to ControlChange instead of failing
MidiMessageTypes_try_from_default(value) ==
    IF \E k \in MidiMessageKinds : MidiMessageTypes[k] = value
    THEN [ok |-> TRUE, v |-> CHOOSE k \in MidiMessageKinds : MidiMessageTypes[k] = value]
    ELSE [ok |-> TRUE, v |-> "ControlChange"]

\* impl TryFrom<u8> for MidiMessageTypes
MidiMessageTypes_try_from(value) ==
    IF \E k \in MidiMessageKinds : MidiMessageTypes[k] = value
    THEN [ok |-> TRUE, v |-> CHOOSE k \in MidiMessageKinds : MidiMessageTypes[k] = value]
    ELSE [ok |-> FALSE, v |-> None]

\* mutant: a status byte with a channel other than 0 is not parsed
MidiMessageData_new_channel0(byte0, byte1, byte2) ==
    LET midi_type == MidiMessageTypes_try_from(byte0 \div 16)
    IN  IF midi_type.ok /\ byte0 % 16 = 0
        THEN [ok |-> TRUE,
              v  |-> [status_byte |-> midi_type.v, data_byte1 |-> byte1, data_byte2 |-> byte2]]
        ELSE [ok |-> FALSE, v |-> None]

\* MidiMessageData::new
MidiMessageData_new(byte0, byte1, byte2) ==
    LET midi_type == MidiMessageTypes_try_from(byte0 \div 16)
    IN  IF midi_type.ok
        THEN [ok |-> TRUE,
              v  |-> [status_byte |-> midi_type.v, data_byte1 |-> byte1, data_byte2 |-> byte2]]
        ELSE [ok |-> FALSE, v |-> None]

\* MidiMessageData::should_add_midi_message
should_add_midi_message(self) ==
    self.status_byte = "NoteOn" /\ self.data_byte2 # 0

\* mutant: a NoteOn with velocity 0 is not taken as a release
should_remove_only_note_off(self) ==
    self.status_byte = "NoteOff"

\* mutant: any message whose second data byte is 0 is taken as a release
should_remove_any_zero(self) ==
    self.data_byte2 = 0 \/ self.status_byte = "NoteOff"

\* MidiMessageData::should_remove_midi_message
should_remove_midi_message(self) ==
    (self.status_byte = "NoteOn" /\ self.data_byte2 = 0) \/ self.status_byte = "NoteOff"

\* Vec::retain(|x| x.data_byte1 != note)
RECURSIVE retain_other_notes(_, _)
retain_other_notes(list, note) ==
    IF list = << >> THEN << >>
    ELSE IF Head(list).data_byte1 # note
         THEN << Head(list) >> \o retain_other_notes(Tail(list), note)
         ELSE retain_other_notes(Tail(list), note)

\* mutant: only the first entry is compared
note_exists_first_only(list, midi_data) ==
    list # << >> /\ list[1].data_byte1 = midi_data.data_byte1

\* lines 118-120: return_messages.iter().any(|x| x.data_byte1 == midi_data.data_byte1)
note_exists(list, midi_data) ==
    \E i \in 1..Len(list) : list[i].data_byte1 = midi_data.data_byte1

\* mutant: a new note is put at the front of the list
update_messages_push_front(msg, current_messages) ==
    IF Len(msg) < 3 THEN [ok |-> FALSE, v |-> << >>]
    ELSE
      LET parsed == MidiMessageData_new(msg[1], msg[2], msg[3]) IN
      IF ~parsed.ok THEN [ok |-> FALSE, v |-> << >>]
      ELSE
        LET midi_data == parsed.v
            added ==
              IF should_add_midi_message(midi_data) /\ ~note_exists(current_messages, midi_data)
              THEN << midi_data >> \o current_messages
              ELSE current_messages
            removed ==
              IF should_remove_midi_message(midi_data)
              THEN retain_other_notes(added, midi_data.data_byte1)
              ELSE added
        IN [ok |-> TRUE, v |-> removed]

\* process_callback, lines 110-131: the length check, the parse and the update
\* of return_messages, before the two sends.  message is 0-indexed in the code.
update_messages(msg, current_messages) ==
    IF Len(msg) < 3 THEN [ok |-> FALSE, v |-> << >>]
    ELSE
      LET parsed == MidiMessageData_new(msg[1], msg[2], msg[3]) IN
      IF ~parsed.ok THEN [ok |-> FALSE, v |-> << >>]
      ELSE
        LET midi_data == parsed.v
            added ==
              IF should_add_midi_message(midi_data) /\ ~note_exists(current_messages, midi_data)
              THEN Append(current_messages, midi_data)
              ELSE current_messages
            removed ==
              IF should_remove_midi_message(midi_data)
              THEN retain_other_notes(added, midi_data.data_byte1)
              ELSE added
        IN [ok |-> TRUE, v |-> removed]

\* process_callback as one call: rx_alive says whether the receiver of tx still
\* exists (a send on a channel whose receiver was dropped fails).  The result
\* carries the values sent.
process_callback(msg, current_messages, rx_alive) ==
    LET upd == update_messages(msg, current_messages) IN
    IF ~upd.ok THEN [ok |-> FALSE, v |-> << >>, sent |-> << >>]
    ELSE IF ~rx_alive THEN [ok |-> FALSE, v |-> << >>, sent |-> << >>]
    ELSE [ok |-> TRUE, v |-> upd.v, sent |-> << upd.v, upd.v >>]

-----------------------------------------------------------------------------
(* nscontroller.rs *)

\* INDEX_TO_PITCH
INDEX_TO_PITCH ==
    [ i \in 0..11 |->
        << "C", "CSharp", "D", "DSharp", "E", "F",
           "FSharp", "G", "GSharp", "A", "ASharp", "B" >>[i + 1] ]

KEYS_IN_BYTE1 == { "Y", "X", "B", "A", "R", "ZR" }
KEYS_IN_BYTE2 == { "Minus", "Plus", "RightStick", "LeftStick", "Home", "Capture" }
KEYS_IN_BYTE3 == { "DpadUp", "DpadDown", "DpadLeft", "DpadRight", "L", "ZL" }

KEY_OFFSET ==
    [ Y |-> 0, X |-> 1, B |-> 2, A |-> 3, R |-> 6, ZR |-> 7,
      Minus |-> 0, Plus |-> 1, RightStick |-> 2, LeftStick |-> 3, Home |-> 4, Capture |-> 5,
      DpadDown |-> 0, DpadUp |-> 1, DpadRight |-> 2, DpadLeft |-> 3, L |-> 6, ZL |-> 7 ]

\* PITCH_TO_BUTTON with A# and B on the same button
PITCH_TO_BUTTON_shared ==
    [ C |-> "Y", CSharp |-> "X", D |-> "B", DSharp |-> "A", E |-> "R", F |-> "ZR",
      FSharp |-> "L", G |-> "ZL", GSharp |-> "DpadDown", A |-> "DpadUp",
      ASharp |-> "DpadLeft", B |-> "DpadLeft" ]

PITCH_TO_BUTTON ==
    [ C |-> "Y", CSharp |-> "X", D |-> "B", DSharp |-> "A", E |-> "R", F |-> "ZR",
      FSharp |-> "L", G |-> "ZL", GSharp |-> "DpadDown", A |-> "DpadUp",
      ASharp |-> "DpadLeft", B |-> "DpadRight" ]

\* mutant: the note number is reduced modulo 16
Pitch_from_midi_mod16(midi_data) ==
    LET note_number_mod == midi_data.data_byte1 % 16 IN
    IF note_number_mod \in DOMAIN INDEX_TO_PITCH
    THEN [ok |-> TRUE, v |-> INDEX_TO_PITCH[note_number_mod]]
    ELSE [ok |-> FALSE, v |-> None]

\* Pitch::from_midi
Pitch_from_midi(midi_data) ==
    LET note_number_mod == midi_data.data_byte1 % 12 IN
    IF note_number_mod \in DOMAIN INDEX_TO_PITCH
    THEN [ok |-> TRUE, v |-> INDEX_TO_PITCH[note_number_mod]]
    ELSE [ok |-> FALSE, v |-> None]

\* InputReport::new ; report is 0-indexed in the code, 1-indexed here
InputReport_new == << 0, 128, 0 >>

\* enum Button
Button ==
    { "Y", "X", "B", "A", "R", "ZR",
      "Minus", "Plus", "RightStick", "LeftStick", "Home", "Capture",
      "DpadDown", "DpadUp", "DpadRight", "DpadLeft", "L", "ZL" }

\* mutant: the keys of the third byte are not looked for
find_packet_position_no_byte3(key) ==
    LET p0 == 255
        p1 == IF key \in KEYS_IN_BYTE1 THEN 0 ELSE p0
        p2 == IF key \in KEYS_IN_BYTE2 THEN 1 ELSE p1
    IN  IF p2 = 255 THEN [ok |-> FALSE, v |-> None] ELSE [ok |-> TRUE, v |-> p2]

\* InputReport::find_packet_position
find_packet_position(key) ==
    LET p0 == 255
        p1 == IF key \in KEYS_IN_BYTE1 THEN 0 ELSE p0
        p2 == IF key \in KEYS_IN_BYTE2 THEN 1 ELSE p1
        p3 == IF key \in KEYS_IN_BYTE3 THEN 2 ELSE p2
    IN  IF p3 = 255 THEN [ok |-> FALSE, v |-> None] ELSE [ok |-> TRUE, v |-> p3]

\* mutant: the bit is assigned to the byte instead of OR-ed into it
press_one_assign(report, key) ==
    LET position == find_packet_position(key) IN
    IF ~position.ok THEN [ok |-> FALSE, report |-> report]
    ELSE IF key \in DOMAIN KEY_OFFSET
         THEN [ok |-> TRUE,
               report |-> [report EXCEPT ![position.v + 1] = Shl1(KEY_OFFSET[key])]]
         ELSE [ok |-> FALSE, report |-> report]

\* InputReport::press_one
press_one(report, key) ==
    LET position == find_packet_position(key) IN
    IF ~position.ok THEN [ok |-> FALSE, report |-> report]
    ELSE IF key \in DOMAIN KEY_OFFSET
         THEN [ok |-> TRUE,
               report |-> [report EXCEPT ![position.v + 1] =
                              BitOr(report[position.v + 1], Shl1(KEY_OFFSET[key]))]]
         ELSE [ok |-> FALSE, report |-> report]

\* InputReport::from lines 180-199: the two lookups that give pressed_button
pressed_button(midi_data) ==
    LET pressed_pitch == Pitch_from_midi(midi_data) IN
    IF ~pressed_pitch.ok THEN [ok |-> FALSE, v |-> None]
    ELSE IF pressed_pitch.v \notin DOMAIN PITCH_TO_BUTTON THEN [ok |-> FALSE, v |-> None]
    ELSE [ok |-> TRUE, v |-> PITCH_TO_BUTTON[pressed_pitch.v]]

\* InputReport::from ; panicked is the unwrap of a failed press_one
InputReport_from(midi_data) ==
    LET input_report == InputReport_new
        button == pressed_button(midi_data)
    IN  IF ~button.ok THEN [panicked |-> FALSE, report |-> input_report]
        ELSE LET pressed == press_one(input_report, button.v)
             IN  [panicked |-> ~pressed.ok, report |-> pressed.report]

-----------------------------------------------------------------------------
(* Bounds of the model *)

\* MIDI messages delivered to the callback
MaxEvents == 3
\* frames queued on the two relay channels together
MaxQueue == 1
\* length of the lists given to process_callback on its own
MaxLen == 3
\* frames read from the two devices together while the relay is followed
MaxReads == 4

-----------------------------------------------------------------------------
(* Frames: DeviceFile::read returns vec![0u8; 64] filled by read_exact *)

FRAME_LEN == 64
INPUT_REPORT == 48

\* a 64-byte frame; the code indexes it from 0, the model from 1
Frame(tag, b3, b4, b5) ==
    [ i \in 1..FRAME_LEN |->
        IF i = 1 THEN tag
        ELSE IF i = 4 THEN b3
        ELSE IF i = 5 THEN b4
        ELSE IF i = 6 THEN b5
        ELSE i - 1 ]

\* frames the controller device delivers: an input report (A and D-pad up
\* pressed) and a subcommand reply (0x21)
ControllerFrames ==
    { Frame(INPUT_REPORT, 8, 128, 2), Frame(33, 8, 128, 2) }

\* frames the host sends through the gadget device: a 0x80 command and a
\* 0x01 rumble-and-subcommand report
GadgetFrames == { Frame(128, 5, 0, 0), Frame(1, 0, 0, 0) }

\* messages the MIDI transport delivers (midi_in.ignore(Ignore::None): every
\* message, of any length, reaches the callback)
MidiInputs ==
    { << 144, 0, 64 >>,      \* NoteOn  C   (0x90)
      << 145, 6, 64 >>,      \* NoteOn  F#, channel 1
      << 128, 0, 0 >>,       \* NoteOff C   (0x80)
      << 248 >>,             \* timing clock (0xF8), one byte
      << 0, 0, 0 >> }        \* status high nibble 0x0

-----------------------------------------------------------------------------
(* DeviceFile (device_file.rs) *)
\* DeviceFile::read with a plain read in place of read_exact: the buffer may
\* come back holding only the first bytes of a frame
DeviceFile_read_partial(frames) ==
    { [ok |-> TRUE, v |-> f, kind |-> None] : f \in frames }
    \cup { [ok |-> TRUE, v |-> SubSeq(f, 1, 3), kind |-> None] : f \in frames }
    \cup { [ok |-> FALSE, v |-> None, kind |-> k] : k \in {"WouldBlock", "Other"} }

\* DeviceFile::read : Ok(64 bytes), or an Err that is WouldBlock or another
\* error.  frames is the set the device can deliver now.
DeviceFile_read(frames) ==
    { [ok |-> TRUE, v |-> f, kind |-> None] : f \in frames }
      \cup { [ok |-> FALSE, v |-> None, kind |-> k] : k \in { "WouldBlock", "Other" } }

\* DeviceFile::new : Ok(DeviceFile) or the Err of open
DeviceFile_new == { [ok |-> TRUE], [ok |-> FALSE] }

\* DeviceFile::write : Ok(()) in every case; written says whether write_all
\* put the data on the device (its error is logged, lines 22-24)
DeviceFile_write(data) == { [ok |-> TRUE, written |-> w] : w \in BOOLEAN }

-----------------------------------------------------------------------------
(* gadget.rs : the merge of a note-state snapshot into an input report *)

\* mutant: the fragment is written one byte early, at offsets 2, 3 and 4
RECURSIVE inject_inputs_shifted(_, _)
inject_inputs_shifted(controller_data, result) ==
    IF result = << >> THEN [panicked |-> FALSE, data |-> controller_data]
    ELSE LET input_report == InputReport_from(Head(result)) IN
         IF input_report.panicked THEN [panicked |-> TRUE, data |-> controller_data]
         ELSE inject_inputs_shifted(
                [controller_data EXCEPT ![3] = input_report.report[1],
                                        ![4] = input_report.report[2],
                                        ![5] = input_report.report[3]],
                Tail(result))

\* lines 46-52: for midi_data in result { controller_data[3..=5] = report }
RECURSIVE inject_inputs(_, _)
inject_inputs(controller_data, result) ==
    IF result = << >> THEN [panicked |-> FALSE, data |-> controller_data]
    ELSE LET input_report == InputReport_from(Head(result)) IN
         IF input_report.panicked THEN [panicked |-> TRUE, data |-> controller_data]
         ELSE inject_inputs(
                [controller_data EXCEPT ![4] = input_report.report[1],
                                        ![5] = input_report.report[2],
                                        ![6] = input_report.report[3]],
                Tail(result))

-----------------------------------------------------------------------------
(* State groups *)

listener_vars == << midi_note_on_messages, lock_held, lpc, message, persistent,
                    return_messages, n_callbacks, n_ok >>
harness_vars == << cb_in, cb_out, rep_in, rep_out >>

\* last_drain when the drain found no frame
NoDrain == [received |-> NoValue, snapshot |-> NoValue, written |-> NoValue,
            pending |-> 0, event |-> 0, latest |-> 0]

\* receivers are dropped when their loop panics
rx_midi_alive == gpc # "dead"
rx_gadget_alive == gpc # "dead"
rx_controller_alive == cpc # "dead"

\* senders are dropped with the loop that holds them
tx_gadget_alive == cpc # "dead"
tx_controller_alive == gpc # "dead"

\* relay_log when the relay is followed frame by frame
EmptyLog == [gadget_read |-> << >>, controller_written |-> << >>,
             controller_read |-> << >>, gadget_written |-> << >>,
             gadget_result |-> NoValue, controller_result |-> NoValue]

\* relay_log after a device read of this tick: the frame read, if any, and
\* the result with whether error!(..) was called for it
ReadLogged(field, result_field, r, error_logged) ==
    IF relay_log = NoValue THEN relay_log
    ELSE Some([relay_log[1] EXCEPT
                 ![field] = IF r.ok THEN Append(@, r.v) ELSE @,
                 ![result_field] = Some([ok |-> r.ok, kind |-> r.kind,
                                         logged |-> error_logged])])

\* relay_log at the start of the next tick: the read result of the last tick
\* is forgotten, and the frame handed to write, if any, is recorded
DrainLogged(field, result_field, entries) ==
    IF relay_log = NoValue THEN relay_log
    ELSE Some([relay_log[1] EXCEPT ![field] = @ \o entries,
                                   ![result_field] = NoValue])

\* the frames a device can deliver now: while the relay is followed, until
\* MaxReads frames were read from the two devices; otherwise while fewer than
\* MaxQueue frames are queued
Readable(frames) ==
    IF relay_log = NoValue
    THEN IF Len(gadget_chan) + Len(controller_chan) < MaxQueue THEN frames ELSE {}
    ELSE IF Len(relay_log[1].gadget_read) + Len(relay_log[1].controller_read) < MaxReads
         THEN frames ELSE {}

SystemInit ==
    /\ midi_note_on_messages = << >>
    /\ lock_held = FALSE
    /\ lpc = "idle"
    /\ message = << >>
    /\ persistent = << >>
    /\ return_messages = << >>
    /\ midi_chan = << >>
    /\ gadget_chan = << >>
    /\ controller_chan = << >>
    /\ gpc = "drain"
    /\ cpc = "drain"
    /\ n_callbacks = 0
    /\ n_ok = 0
    /\ n_sent = 0
    /\ last_drain = NoDrain
    /\ relay_log = NoValue

HarnessIdle ==
    /\ cb_in = NoValue
    /\ cb_out = NoValue
    /\ rep_in = NoValue
    /\ rep_out = NoValue

Init == SystemInit /\ HarnessIdle

-----------------------------------------------------------------------------
(* midi.rs process_signals : the callback closure, lines 51-79 *)

\* lines 57-59: a message arrives, the callback locks the state and clones it
Callback_lock_clone ==
    /\ lpc = "idle"
    /\ n_callbacks < MaxEvents
    /\ \E m \in MidiInputs : message' = m
    /\ lock_held' = TRUE
    /\ persistent' = midi_note_on_messages
    /\ lpc' = "cloned"
    /\ n_callbacks' = n_callbacks + 1
    /\ UNCHANGED << midi_note_on_messages, return_messages, n_ok, n_sent,
                    midi_chan, gadget_chan, controller_chan, gpc, cpc,
                    last_drain, relay_log, harness_vars >>

\* mutant: the guard lives on after the clone
Callback_unlock_keeps_guard ==
    /\ lpc = "cloned"
    /\ lpc' = "process"
    /\ UNCHANGED << midi_note_on_messages, lock_held, message, persistent, return_messages,
                    n_callbacks, n_ok, n_sent,
                    midi_chan, gadget_chan, controller_chan, gpc, cpc,
                    last_drain, relay_log, harness_vars >>

\* line 62: the guard goes out of scope
Callback_unlock ==
    /\ lpc = "cloned"
    /\ lock_held' = FALSE
    /\ lpc' = "process"
    /\ UNCHANGED << midi_note_on_messages, message, persistent, return_messages,
                    n_callbacks, n_ok, n_sent,
                    midi_chan, gadget_chan, controller_chan, gpc, cpc,
                    last_drain, relay_log, harness_vars >>

\* a snapshot on the note-state channel, with the number of the publishing
\* callback (a history tag the program does not read)
Published(snapshot) == [snapshot |-> snapshot, event |-> n_ok + 1]

\* process_callback lines 110-134: length check, parse, update, first send
Callback_process ==
    /\ lpc = "process"
    /\ LET upd == update_messages(message, persistent) IN
       IF upd.ok /\ rx_midi_alive
       THEN /\ return_messages' = upd.v
            /\ midi_chan' = Append(midi_chan, Published(upd.v))
            /\ n_sent' = n_sent + 1
            /\ lpc' = "send2"
            /\ UNCHANGED << message, persistent >>
       ELSE \* Err(..): logged at line 76, the state is not replaced
            /\ return_messages' = << >>
            /\ message' = << >>
            /\ persistent' = << >>
            /\ lpc' = "idle"
            /\ UNCHANGED << midi_chan, n_sent >>
    /\ UNCHANGED << midi_note_on_messages, lock_held,
                    n_callbacks, n_ok, gadget_chan, controller_chan, gpc, cpc,
                    last_drain, relay_log, harness_vars >>

\* mutant: the second send is left out
Callback_send2_no_send ==
    /\ lpc = "send2"
    /\ n_ok' = n_ok + 1
    /\ lpc' = "ok"
    /\ UNCHANGED << midi_note_on_messages, lock_held, message, persistent, return_messages,
                    n_callbacks, n_sent, midi_chan, gadget_chan, controller_chan,
                    gpc, cpc, last_drain, relay_log, harness_vars >>

\* process_callback lines 135-137: second send, Ok(return_messages)
Callback_send2 ==
    /\ lpc = "send2"
    /\ IF rx_midi_alive
       THEN /\ midi_chan' = Append(midi_chan, Published(return_messages))
            /\ n_sent' = n_sent + 1
            /\ n_ok' = n_ok + 1
            /\ lpc' = "ok"
            /\ UNCHANGED << return_messages, message, persistent >>
       ELSE \* Err(..): logged at line 76, the state is not replaced
            /\ return_messages' = << >>
            /\ message' = << >>
            /\ persistent' = << >>
            /\ lpc' = "idle"
            /\ UNCHANGED << midi_chan, n_sent, n_ok >>
    /\ UNCHANGED << midi_note_on_messages, lock_held,
                    n_callbacks, gadget_chan, controller_chan, gpc, cpc,
                    last_drain, relay_log, harness_vars >>

\* lines 65-68: Ok(value): lock and replace the contents of the mutex
Callback_store ==
    /\ lpc = "ok"
    /\ lock_held' = TRUE
    /\ midi_note_on_messages' = return_messages
    /\ lpc' = "stored"
    /\ UNCHANGED << message, persistent, return_messages, n_callbacks, n_ok, n_sent,
                    midi_chan, gadget_chan, controller_chan, gpc, cpc,
                    last_drain, relay_log, harness_vars >>

\* line 73: the guard is dropped, the callback returns
Callback_return ==
    /\ lpc = "stored"
    /\ lock_held' = FALSE
    /\ lpc' = "idle"
    /\ message' = << >>
    /\ persistent' = << >>
    /\ return_messages' = << >>
    /\ UNCHANGED << midi_note_on_messages, n_callbacks, n_ok, n_sent,
                    midi_chan, gadget_chan, controller_chan, gpc, cpc,
                    last_drain, relay_log, harness_vars >>

-----------------------------------------------------------------------------
(* threads/gadget.rs : start_gadget *)

\* merge_frame with the snapshot left at the head of the channel
merge_frame_keeps_snapshot(controller_data, queue) ==
    IF controller_data[1] = INPUT_REPORT /\ queue # << >>
    THEN LET injected == inject_inputs(controller_data, Head(queue).snapshot) IN
         [panicked |-> injected.panicked, data |-> injected.data,
          taken |-> TRUE, queue |-> queue]
    ELSE [panicked |-> FALSE, data |-> controller_data, taken |-> FALSE, queue |-> queue]

\* mutant: the frame's first byte is not looked at
merge_frame_any_tag(controller_data, queue) ==
    IF queue # << >>
    THEN LET injected == inject_inputs(controller_data, Head(queue).snapshot) IN
         [panicked |-> injected.panicked, data |-> injected.data,
          taken |-> TRUE, queue |-> Tail(queue)]
    ELSE [panicked |-> FALSE, data |-> controller_data, taken |-> FALSE, queue |-> queue]

\* lines 44-54 on a frame received from rx_gadget: the frame to write, and
\* what was taken from rx_midi (rx_midi.try_recv() fails when nothing is queued)
merge_frame(controller_data, queue) ==
    IF controller_data[1] = INPUT_REPORT /\ queue # << >>
    THEN LET injected == inject_inputs(controller_data, Head(queue).snapshot) IN
         [panicked |-> injected.panicked, data |-> injected.data,
          taken |-> TRUE, queue |-> Tail(queue)]
    ELSE [panicked |-> FALSE, data |-> controller_data, taken |-> FALSE, queue |-> queue]

\* lines 33-35: DeviceFile::new("/dev/hidg0", true).unwrap(); a panic drops
\* rx_gadget, rx_midi and tx_controller
Gadget_open ==
    /\ gpc = "open"
    /\ \E opened \in DeviceFile_new :
         IF opened.ok
         THEN /\ gpc' = "drain"
              /\ UNCHANGED << midi_chan, gadget_chan >>
         ELSE /\ gpc' = "dead"
              /\ midi_chan' = << >>
              /\ gadget_chan' = << >>
    /\ UNCHANGED << listener_vars, n_sent, controller_chan, cpc, last_drain, relay_log,
                    harness_vars >>

\* lines 38-67: rx_gadget.try_recv() and, on a frame, the merge and the write
Gadget_drain ==
    /\ gpc = "drain"
    /\ IF gadget_chan # << >>
       THEN LET controller_data == Head(gadget_chan)
                merged == merge_frame(controller_data, midi_chan)
            IN  /\ gadget_chan' = Tail(gadget_chan)
                /\ IF merged.panicked
                   THEN /\ gpc' = "dead"
                        /\ midi_chan' = << >>
                        /\ last_drain' = NoDrain
                        /\ UNCHANGED relay_log
                   ELSE /\ gpc' = "read"
                        /\ midi_chan' = merged.queue
                        /\ last_drain' =
                             [received |-> Some(controller_data),
                              snapshot |-> IF merged.taken THEN Some(Head(midi_chan).snapshot)
                                           ELSE NoValue,
                              written  |-> Some(merged.data),
                              pending  |-> Len(midi_chan),
                              event    |-> IF merged.taken THEN Head(midi_chan).event ELSE 0,
                              latest   |-> IF merged.taken
                                           THEN midi_chan[Len(midi_chan)].event ELSE 0]
                        /\ \E w \in DeviceFile_write(merged.data) :
                             relay_log' = DrainLogged("gadget_written", "gadget_result",
                                            << [frame |-> merged.data, written |-> w.written] >>)
       ELSE \* Err(Empty), or Err(Disconnected) which is logged: the loop goes on
            /\ gpc' = "read"
            /\ last_drain' = NoDrain
            /\ relay_log' = DrainLogged("gadget_written", "gadget_result", << >>)
            /\ UNCHANGED << gadget_chan, midi_chan >>
    /\ UNCHANGED << listener_vars, n_sent, controller_chan, cpc,
                    harness_vars >>

\* mutant: a failed send is logged and the loop goes on
Gadget_read_ignores_send_error ==
    /\ gpc = "read"
    /\ \E r \in DeviceFile_read(Readable(GadgetFrames)) :
         IF r.ok
         THEN /\ relay_log' = ReadLogged("gadget_read", "gadget_result", r, FALSE)
              /\ controller_chan' = IF rx_controller_alive THEN Append(controller_chan, r.v)
                                    ELSE controller_chan
              /\ gpc' = "drain"
              /\ UNCHANGED << midi_chan, gadget_chan >>
         ELSE /\ gpc' = "drain"
              /\ relay_log' = ReadLogged("gadget_read", "gadget_result", r,
                                          r.kind # "WouldBlock")
              /\ UNCHANGED << controller_chan, midi_chan, gadget_chan >>
    /\ last_drain' = NoDrain
    /\ UNCHANGED << listener_vars, n_sent, cpc, harness_vars >>

\* lines 68-86: gadget_device.read() and the forward to tx_controller
Gadget_read ==
    /\ gpc = "read"
    /\ \E r \in DeviceFile_read(Readable(GadgetFrames)) :
         IF r.ok
         THEN /\ relay_log' = ReadLogged("gadget_read", "gadget_result", r, FALSE)
              /\ IF rx_controller_alive
                 THEN /\ controller_chan' = Append(controller_chan, r.v)
                      /\ gpc' = "drain"
                      /\ UNCHANGED << midi_chan, gadget_chan >>
                 ELSE \* panic!("Cannot send to tx_controller")
                      /\ gpc' = "dead"
                      /\ midi_chan' = << >>
                      /\ gadget_chan' = << >>
                      /\ UNCHANGED controller_chan
         ELSE \* lines 78-84: error!(..) unless the error is WouldBlock
              /\ gpc' = "drain"
              /\ relay_log' = ReadLogged("gadget_read", "gadget_result", r,
                                          r.kind # "WouldBlock")
              /\ UNCHANGED << controller_chan, midi_chan, gadget_chan >>
    /\ last_drain' = NoDrain
    /\ UNCHANGED << listener_vars, n_sent, cpc, harness_vars >>

-----------------------------------------------------------------------------
(* threads/controller.rs : start_controller *)

\* lines 15-17: DeviceFile::new("/dev/hidraw0", true).unwrap(); a panic drops
\* rx_controller and tx_gadget
Controller_open ==
    /\ cpc = "open"
    /\ \E opened \in DeviceFile_new :
         IF opened.ok
         THEN /\ cpc' = "drain"
              /\ UNCHANGED controller_chan
         ELSE /\ cpc' = "dead"
              /\ controller_chan' = << >>
    /\ UNCHANGED << listener_vars, n_sent, midi_chan, gadget_chan, gpc,
                    last_drain, relay_log, harness_vars >>

\* mutant: the drain empties the channel and writes the first frame only
Controller_drain_all ==
    /\ cpc = "drain"
    /\ cpc' = "read"
    /\ IF controller_chan # << >>
       THEN /\ controller_chan' = << >>
            /\ \E w \in DeviceFile_write(Head(controller_chan)) :
                 relay_log' = DrainLogged("controller_written", "controller_result",
                                << [frame |-> Head(controller_chan), written |-> w.written] >>)
       ELSE /\ relay_log' = DrainLogged("controller_written", "controller_result", << >>)
            /\ UNCHANGED controller_chan
    /\ UNCHANGED << listener_vars, n_sent, midi_chan, gadget_chan, gpc,
                    last_drain, harness_vars >>

\* lines 22-36: rx_controller.try_recv() and, on a frame, the write
Controller_drain ==
    /\ cpc = "drain"
    /\ cpc' = "read"
    /\ IF controller_chan # << >>
       THEN /\ controller_chan' = Tail(controller_chan)
            /\ \E w \in DeviceFile_write(Head(controller_chan)) :
                 relay_log' = DrainLogged("controller_written", "controller_result",
                                << [frame |-> Head(controller_chan), written |-> w.written] >>)
       ELSE \* Err(Empty), or Err(Disconnected) which is logged: the loop goes on
            /\ relay_log' = DrainLogged("controller_written", "controller_result", << >>)
            /\ UNCHANGED controller_chan
    /\ UNCHANGED << listener_vars, n_sent, midi_chan, gadget_chan, gpc,
                    last_drain, harness_vars >>

\* mutant: the frame read is sent twice
Controller_read_sends_twice ==
    /\ cpc = "read"
    /\ \E r \in DeviceFile_read(Readable(ControllerFrames)) :
         IF r.ok
         THEN /\ relay_log' = ReadLogged("controller_read", "controller_result", r, FALSE)
              /\ IF rx_gadget_alive
                 THEN /\ gadget_chan' = gadget_chan \o << r.v, r.v >>
                      /\ cpc' = "drain"
                      /\ UNCHANGED controller_chan
                 ELSE /\ cpc' = "dead"
                      /\ controller_chan' = << >>
                      /\ UNCHANGED gadget_chan
         ELSE /\ cpc' = "drain"
              /\ relay_log' = ReadLogged("controller_read", "controller_result", r, FALSE)
              /\ UNCHANGED << controller_chan, gadget_chan >>
    /\ UNCHANGED << listener_vars, n_sent, midi_chan, gpc,
                    last_drain, harness_vars >>

\* lines 38-48: controller.read() and the forward to tx_gadget
Controller_read ==
    /\ cpc = "read"
    /\ \E r \in DeviceFile_read(Readable(ControllerFrames)) :
         IF r.ok
         THEN /\ relay_log' = ReadLogged("controller_read", "controller_result", r, FALSE)
              /\ IF rx_gadget_alive
                 THEN /\ gadget_chan' = Append(gadget_chan, r.v)
                      /\ cpc' = "drain"
                      /\ UNCHANGED controller_chan
                 ELSE \* panic!("Cannot send to tx_gadget")
                      /\ cpc' = "dead"
                      /\ controller_chan' = << >>
                      /\ UNCHANGED gadget_chan
         ELSE \* any Err: if let Ok(buf) skips it, nothing is logged
              /\ cpc' = "drain"
              /\ relay_log' = ReadLogged("controller_read", "controller_result", r, FALSE)
              /\ UNCHANGED << controller_chan, gadget_chan >>
    /\ UNCHANGED << listener_vars, n_sent, midi_chan, gpc,
                    last_drain, harness_vars >>

-----------------------------------------------------------------------------

Next ==
    \/ Callback_lock_clone
    \/ Callback_unlock
    \/ Callback_process
    \/ Callback_send2
    \/ Callback_store
    \/ Callback_return
    \/ Gadget_drain
    \/ Gadget_read
    \/ Controller_drain
    \/ Controller_read

Spec == Init /\ [][Next]_vars

-----------------------------------------------------------------------------
(* Claims about the running system (Spec) *)

\* what the claims say about a message, read off its bytes
IsPress(msg) == Len(msg) >= 3 /\ msg[1] \div 16 = 9 /\ msg[3] # 0
IsRelease(msg) == Len(msg) >= 3 /\ (msg[1] \div 16 = 8 \/ (msg[1] \div 16 = 9 /\ msg[3] = 0))
Unparseable(msg) == Len(msg) < 3 \/ msg[1] \div 16 \notin 8..14
HasNote(list, n) == \E i \in 1..Len(list) : list[i].data_byte1 = n
WithoutNote(list, n) == SelectSeq(list, LAMBDA x : x.data_byte1 # n)

NoDuplicates(list) ==
    \A i, j \in 1..Len(list) : i # j => list[i].data_byte1 # list[j].data_byte1

\* C3: starting from the empty set, after any sequence of messages handled by
\* the callback, the active-note set (stored, being returned, or published)
\* holds at most one entry per note number.
C3_OneEntryPerNote ==
    /\ NoDuplicates(midi_note_on_messages)
    /\ NoDuplicates(return_messages)
    /\ \A i \in 1..Len(midi_chan) : NoDuplicates(midi_chan[i].snapshot)

\* C3 witness: a NoteOn for a held note was processed and stored while two
\* notes are held
C3_Witness ==
    /\ lpc = "stored"
    /\ message = << 144, 0, 64 >>
    /\ HasNote(persistent, 0)
    /\ Len(midi_note_on_messages) = 2
    /\ midi_note_on_messages = persistent

PairsInOrder(q) ==
    /\ \A i \in 1..(Len(q) - 1) :
         /\ q[i].event <= q[i + 1].event
         /\ q[i + 1].event <= q[i].event + 1
         /\ q[i].event = q[i + 1].event => q[i].snapshot = q[i + 1].snapshot
    /\ \A i \in 1..(Len(q) - 2) : q[i].event < q[i + 2].event
    /\ \A i \in 2..(Len(q) - 1) : q[i].event = q[i - 1].event \/ q[i].event = q[i + 1].event
    /\ (Len(q) >= 2 /\ lpc # "send2") => q[Len(q)].event = q[Len(q) - 1].event

\* C5: every successful process_callback call sends the resulting set exactly
\* twice, one send right after the other, both values equal to the returned
\* set (which is then stored); so the sends made are two per successful call
\* and the channel holds adjacent identical pairs in message order.
C5_SentTwice ==
    /\ [](n_sent = 2 * n_ok + (IF lpc = "send2" THEN 1 ELSE 0))
    /\ [](PairsInOrder(midi_chan))
    /\ [][ (lpc = "process" /\ lpc' = "send2") =>
             midi_chan' = Append(midi_chan, [snapshot |-> return_messages',
                                             event |-> n_ok + 1]) ]_vars
    /\ [][ (lpc = "send2" /\ lpc' # "send2") =>
             /\ lpc' = "ok"
             /\ return_messages' = return_messages
             /\ midi_chan' = Append(midi_chan, [snapshot |-> return_messages,
                                                event |-> n_ok + 1]) ]_vars
    /\ [][ (lpc = "ok" /\ lpc' # "ok") => midi_note_on_messages' = return_messages ]_vars

\* C5 witness: the third successful call has returned, and the channel holds
\* its pair behind the pairs of the two calls before it
C5_Witness ==
    /\ lpc = "ok"
    /\ n_ok = 3
    /\ n_sent = 6
    /\ Len(midi_chan) = 6
    /\ midi_chan[5].snapshot = return_messages
    /\ midi_chan[6].snapshot = return_messages
    /\ Len(return_messages) = 2
    /\ midi_chan[4].snapshot # return_messages

\* what the gadget loop's last drain did; frames are indexed from 1 here
Drained == gpc = "read" /\ last_drain.received # NoValue
DrainReceived == last_drain.received[1]
DrainWritten == last_drain.written[1]
DrainMerged == Drained /\ last_drain.snapshot # NoValue
DrainSnapshot == last_drain.snapshot[1]

\* the bitwise OR of the fragments of the notes of a snapshot
RECURSIVE FragmentUnion(_)
FragmentUnion(snapshot) ==
    IF snapshot = << >> THEN InputReport_new
    ELSE LET f == InputReport_from(Head(snapshot)).report
             r == FragmentUnion(Tail(snapshot))
         IN  << BitOr(f[1], r[1]), BitOr(f[2], r[2]), BitOr(f[3], r[3]) >>

\* C6: when the gadget loop drains a 0x30 frame and takes a snapshot (here: one
\* that holds a note), bytes 3, 4 and 5 of the frame written are the bitwise OR
\* of the fragments of every note of the snapshot.
C6_MergeIsUnion ==
    (DrainMerged /\ DrainReceived[1] = INPUT_REPORT /\ DrainSnapshot # << >>) =>
        << DrainWritten[4], DrainWritten[5], DrainWritten[6] >> = FragmentUnion(DrainSnapshot)

\* C7: a frame whose first byte is not 0x30 is written to the gadget as it was
\* received, whatever is pending on the note-state channel.
C7_OtherFramesUntouched ==
    (Drained /\ DrainReceived[1] # INPUT_REPORT) =>
        /\ DrainWritten = DrainReceived
        /\ last_drain.snapshot = NoValue

\* C7 witness: a 0x21 frame written unchanged with two published snapshots
\* still pending after the drain
C7_Witness ==
    /\ Drained
    /\ DrainReceived[1] = 33
    /\ DrainWritten = DrainReceived
    /\ Len(midi_chan) >= 2
    /\ midi_chan[1].snapshot # << >>

\* C8: for a 0x30 frame the merge changes at most bytes 3, 4 and 5: the length
\* and every other byte of the frame written are those of the frame received.
C8_OnlyButtonBytesChange ==
    (Drained /\ DrainReceived[1] = INPUT_REPORT) =>
        /\ Len(DrainWritten) = Len(DrainReceived)
        /\ \A i \in 1..Len(DrainReceived) :
             i \notin { 4, 5, 6 } => DrainWritten[i] = DrainReceived[i]

\* C8 witness: a 0x30 frame whose button bytes the merge did change
C8_Witness ==
    /\ DrainMerged
    /\ DrainReceived[1] = INPUT_REPORT
    /\ DrainSnapshot # << >>
    /\ DrainWritten # DrainReceived
    /\ Len(DrainWritten) = FRAME_LEN

\* C9 as claimed: the snapshot merged into a frame is at most one MIDI event
\* older than the snapshot published last at the moment of the merge.
C9_AtMostOneEventStale ==
    DrainMerged => last_drain.latest - last_drain.event <= 1

\* C9 amended: the snapshot merged is the oldest pending one, and it is at most
\* floor(n / 2) events older than the snapshot published last, n being the
\* number of snapshots pending at the merge.
C9_StaleByHalfPending ==
    DrainMerged =>
        /\ last_drain.event <= last_drain.latest
        /\ last_drain.latest - last_drain.event <= last_drain.pending \div 2

\* C9 witness: a merge with a snapshot two events old, four pending
C9_Witness ==
    /\ DrainMerged
    /\ last_drain.pending = 4
    /\ last_drain.latest - last_drain.event = 2

\* C23: when the gadget loop drains a 0x30 frame and the snapshot it takes is
\* the empty set, bytes 3, 4 and 5 of the frame written are the encoding of no
\* buttons, [0x00, 0x80, 0x00], not the controller's own button bytes.
C23_EmptySnapshotOverwrites ==
    (DrainMerged /\ DrainReceived[1] = INPUT_REPORT /\ DrainSnapshot = << >>) =>
        << DrainWritten[4], DrainWritten[5], DrainWritten[6] >> = InputReport_new

\* C26: the gadget loop removes a snapshot from the note-state channel only
\* while handling a frame whose first byte is 0x30, and then the oldest one:
\* a tick that drains no frame, or a frame with another first byte, and the
\* device read of a tick leave the channel as it is.
C26_SnapshotTakenOnlyForInputReport ==
    /\ [][ (Len(midi_chan') < Len(midi_chan) /\ gpc' # "dead") =>
             /\ gpc = "drain" /\ gpc' = "read"
             /\ gadget_chan # << >>
             /\ Head(gadget_chan)[1] = INPUT_REPORT
             /\ midi_chan' = Tail(midi_chan) ]_vars
    /\ [][ (gpc = "drain" /\ gpc' = "read"
              /\ (gadget_chan = << >> \/ Head(gadget_chan)[1] # INPUT_REPORT)) =>
             midi_chan' = midi_chan ]_vars
    /\ [][ (gpc = "read" /\ gpc' = "drain") => midi_chan' = midi_chan ]_vars
    /\ []((Drained /\ DrainReceived[1] # INPUT_REPORT) =>
            /\ last_drain.snapshot = NoValue
            /\ last_drain.pending <= Len(midi_chan))

\* C26 witness: a 0x21 frame was drained with four snapshots pending, and the
\* four are still pending
C26_Witness ==
    /\ Drained
    /\ DrainReceived[1] = 33
    /\ last_drain.pending = 4
    /\ Len(midi_chan) = 4
    /\ lpc = "idle"

\* C22: the lock on the active-note state is held only while the state is
\* cloned out and while the new state is stored back, never while
\* process_callback parses, updates the set or sends.
C22_LockOnlyAroundCloneAndStore ==
    /\ lock_held => lpc \in { "cloned", "stored" }
    /\ lpc \in { "process", "send2", "ok" } => ~lock_held
    /\ lpc = "cloned" => persistent = midi_note_on_messages
    /\ lpc = "stored" => midi_note_on_messages = return_messages

\* C22 witness: the callback is between its two sends, the lock free and the
\* stored state still the one cloned
C22_Witness ==
    /\ lpc = "send2"
    /\ ~lock_held
    /\ n_sent = 3
    /\ return_messages # midi_note_on_messages
    /\ persistent = midi_note_on_messages

-----------------------------------------------------------------------------
(* process_callback on its own: one call on an arbitrary list and message *)

\* entries an active-note list may hold
CbEntries ==
    { [status_byte |-> "NoteOn", data_byte1 |-> n, data_byte2 |-> 64] : n \in { 0, 6, 18 } }
      \cup { [status_byte |-> "NoteOn", data_byte1 |-> 6, data_byte2 |-> 127] }

\* every list of at most MaxLen entries, duplicates of a note number included
CbLists == UNION { [1..n -> CbEntries] : n \in 0..MaxLen }

\* status bytes 0x00 0x70 0x80 0x83 0x90 0x91 0xA0 0xB0 0xC0 0xD0 0xE0 0xF0
CbStatusBytes == { 0, 112, 128, 131, 144, 145, 160, 176, 192, 208, 224, 240 }

\* three-byte messages, and messages that are too short or longer than three
CbMessages ==
    { << st, n, v >> : st \in CbStatusBytes, n \in { 0, 6, 18 }, v \in { 0, 64 } }
      \cup { << >>, << 144 >>, << 144, 6 >>, << 248 >>, << 144, 6, 64, 0 >> }

CallbackInit ==
    /\ SystemInit
    /\ \E i \in [message : CbMessages, current_messages : CbLists, rx_alive : BOOLEAN] :
         cb_in = Some(i)
    /\ cb_out = NoValue
    /\ rep_in = NoValue
    /\ rep_out = NoValue

\* the call
CallProcessCallback ==
    /\ cb_in # NoValue
    /\ cb_out = NoValue
    /\ cb_out' = Some(process_callback(cb_in[1].message, cb_in[1].current_messages,
                                       cb_in[1].rx_alive))
    /\ UNCHANGED << listener_vars, n_sent, midi_chan, gadget_chan, controller_chan, gpc, cpc,
                    last_drain, relay_log, cb_in, rep_in, rep_out >>

SpecCallback == CallbackInit /\ [][CallProcessCallback]_vars

\* C1: a NoteOn with non-zero velocity, the sends succeeding, returns the list
\* with the new note appended at the end when no entry has that note number,
\* and the list itself when an entry has it.
C1_PressAppendsOrKeeps ==
    (cb_out # NoValue /\ IsPress(cb_in[1].message) /\ cb_in[1].rx_alive) =>
        LET msg == cb_in[1].message
            current == cb_in[1].current_messages
        IN  /\ cb_out[1].ok
            /\ ~HasNote(current, msg[2]) =>
                 cb_out[1].v = Append(current, [status_byte |-> "NoteOn",
                                                data_byte1 |-> msg[2],
                                                data_byte2 |-> msg[3]])
            /\ HasNote(current, msg[2]) => cb_out[1].v = current

\* C1 witness: a press appended behind the entry of another note
C1_Witness ==
    /\ cb_out # NoValue
    /\ cb_in[1].rx_alive
    /\ cb_in[1].message = << 144, 0, 64 >>
    /\ Len(cb_in[1].current_messages) = 1
    /\ cb_in[1].current_messages[1].data_byte1 = 6
    /\ cb_out[1].ok
    /\ Len(cb_out[1].v) = 2
    /\ cb_out[1].v[2].data_byte1 = 0

\* C2: a NoteOff, or a NoteOn with velocity 0, the sends succeeding, returns
\* the list without the entries of that note number, the others in their
\* order; with no such entry the call succeeds and returns the list unchanged.
C2_ReleaseRemoves ==
    (cb_out # NoValue /\ IsRelease(cb_in[1].message) /\ cb_in[1].rx_alive) =>
        LET msg == cb_in[1].message
            current == cb_in[1].current_messages
        IN  /\ cb_out[1].ok
            /\ cb_out[1].v = WithoutNote(current, msg[2])
            /\ ~HasNote(current, msg[2]) => cb_out[1].v = current

\* C2 witness: a NoteOn with velocity 0 removes both entries of note 6 and
\* keeps the entry of note 0 between them
C2_Witness ==
    /\ cb_out # NoValue
    /\ cb_in[1].rx_alive
    /\ cb_in[1].message = << 144, 6, 0 >>
    /\ Len(cb_in[1].current_messages) = 3
    /\ cb_in[1].current_messages[1].data_byte1 = 6
    /\ cb_in[1].current_messages[2].data_byte1 = 0
    /\ cb_in[1].current_messages[3].data_byte1 = 6
    /\ cb_out[1].ok
    /\ Len(cb_out[1].v) = 1
    /\ cb_out[1].v[1].data_byte1 = 0

\* a well-formed message of a kind other than NoteOn and NoteOff
IsOtherKind(msg) == Len(msg) >= 3 /\ msg[1] \div 16 \in 10..14

\* C15: a well-formed message of a kind other than NoteOn/NoteOff, the sends
\* succeeding, returns the list unchanged in membership and order, and the
\* unchanged list is what is published on the note-state channel.
C15_OtherKindsPublishUnchanged ==
    (cb_out # NoValue /\ IsOtherKind(cb_in[1].message) /\ cb_in[1].rx_alive) =>
        /\ cb_out[1].ok
        /\ cb_out[1].v = cb_in[1].current_messages
        /\ Len(cb_out[1].sent) >= 1
        /\ \A i \in 1..Len(cb_out[1].sent) : cb_out[1].sent[i] = cb_in[1].current_messages

\* C15 witness: a ControlChange whose data bytes are 0x06 and 0x00 leaves a
\* list holding note 0x06 as it was and publishes it
C15_Witness ==
    /\ cb_out # NoValue
    /\ cb_in[1].rx_alive
    /\ cb_in[1].message = << 176, 6, 0 >>
    /\ Len(cb_in[1].current_messages) = 2
    /\ cb_in[1].current_messages[1].data_byte1 = 6
    /\ cb_in[1].current_messages[2].data_byte1 = 0
    /\ cb_out[1].v = cb_in[1].current_messages
    /\ cb_out[1].sent[1] = cb_in[1].current_messages

-----------------------------------------------------------------------------
(* InputReport::from on its own: two note numbers *)

ReportInit ==
    /\ SystemInit
    /\ cb_in = NoValue
    /\ cb_out = NoValue
    /\ \E i \in [a : Byte, b : Byte] : rep_in = Some(i)
    /\ rep_out = NoValue

NoteOnData(n) == [status_byte |-> "NoteOn", data_byte1 |-> n, data_byte2 |-> 64]

\* the two conversions
CallInputReportFrom ==
    /\ rep_in # NoValue
    /\ rep_out = NoValue
    /\ rep_out' = Some([a |-> InputReport_from(NoteOnData(rep_in[1].a)),
                        b |-> InputReport_from(NoteOnData(rep_in[1].b)),
                        button_a |-> pressed_button(NoteOnData(rep_in[1].a)),
                        button_b |-> pressed_button(NoteOnData(rep_in[1].b))])
    /\ UNCHANGED << listener_vars, n_sent, midi_chan, gadget_chan, controller_chan, gpc, cpc,
                    last_drain, relay_log, cb_in, cb_out, rep_in >>

SpecReport == ReportInit /\ [][CallInputReportFrom]_vars

\* C10: two note numbers congruent modulo 12 map to the same button and
\* InputReport::from gives the same 3-byte fragment for both.
C10_PitchFolding ==
    (rep_out # NoValue /\ rep_in[1].a % 12 = rep_in[1].b % 12) =>
        /\ rep_out[1].button_a.ok
        /\ rep_out[1].button_a = rep_out[1].button_b
        /\ rep_out[1].a = rep_out[1].b

\* C10 witness: 0x06 and 0x12 both give button L, fragment [0x00, 0x80, 0x40]
C10_Witness ==
    /\ rep_out # NoValue
    /\ rep_in[1].a = 6
    /\ rep_in[1].b = 18
    /\ rep_out[1].button_a.v = "L"
    /\ rep_out[1].button_b.v = "L"
    /\ rep_out[1].a.report = << 0, 128, 64 >>
    /\ rep_out[1].b.report = << 0, 128, 64 >>


\* C11: for every note number byte the pitch lookup resolves, the pitch has a
\* button, the button has a byte group and a bit offset, so InputReport::from
\* takes no lookup-miss path and the unwrap of press_one does not panic.
C11_LookupsTotal ==
    rep_out # NoValue =>
        \A n \in { rep_in[1].a, rep_in[1].b } :
            LET midi_data == NoteOnData(n)
                pitch == Pitch_from_midi(midi_data)
            IN  /\ pitch.ok
                /\ pitch.v \in DOMAIN PITCH_TO_BUTTON
                /\ find_packet_position(PITCH_TO_BUTTON[pitch.v]).ok
                /\ PITCH_TO_BUTTON[pitch.v] \in DOMAIN KEY_OFFSET
                /\ press_one(InputReport_new, PITCH_TO_BUTTON[pitch.v]).ok
                /\ pressed_button(midi_data).ok
                /\ ~InputReport_from(midi_data).panicked
                /\ InputReport_from(midi_data).report # InputReport_new
                /\ ~rep_out[1].a.panicked
                /\ ~rep_out[1].b.panicked

\* C11 witness: the largest note numbers, 0xFF (D#, button A) and 0xFE (D,
\* button B), were converted without a panic
C11_Witness ==
    /\ rep_out # NoValue
    /\ rep_in[1].a = 255
    /\ rep_in[1].b = 254
    /\ ~rep_out[1].a.panicked
    /\ rep_out[1].a.report = << 8, 128, 0 >>
    /\ rep_out[1].b.report = << 4, 128, 0 >>

\* the number of bits set in a byte
RECURSIVE PopCount(_)
PopCount(x) == IF x = 0 THEN 0 ELSE (x % 2) + PopCount(x \div 2)

\* C29: for every note number the fragment of InputReport::from has 0x80 in
\* byte 1 and exactly one bit set across bytes 0 and 2, and two notes of
\* different pitch class give different fragments, so the twelve pitch
\* classes occupy twelve distinct (byte, bit) positions.
C29_OneBitPerPitchClass ==
    rep_out # NoValue =>
        /\ \A r \in { rep_out[1].a.report, rep_out[1].b.report } :
             /\ Len(r) = 3
             /\ r[2] = 128
             /\ PopCount(r[1]) + PopCount(r[3]) = 1
        /\ rep_in[1].a % 12 # rep_in[1].b % 12 =>
             rep_out[1].a.report # rep_out[1].b.report

\* C29 witness: notes 0x00 (C, button Y) and 0x0B (B, button DpadRight) give
\* [0x01, 0x80, 0x00] and [0x00, 0x80, 0x04]
C29_Witness ==
    /\ rep_out # NoValue
    /\ rep_in[1].a = 0
    /\ rep_in[1].b = 11
    /\ rep_out[1].a.report = << 1, 128, 0 >>
    /\ rep_out[1].b.report = << 0, 128, 4 >>


-----------------------------------------------------------------------------
(* InputReport::press_one on its own: a fresh report and a sequence of keys *)

\* keys pressed on one report
MaxPresses == 3

PressSequences == UNION { [1..n -> Button] : n \in 0..MaxPresses }

PressInit ==
    /\ SystemInit
    /\ cb_in = NoValue
    /\ cb_out = NoValue
    /\ \E s \in PressSequences : rep_in = Some([keys |-> s])
    /\ rep_out = NoValue

\* input_report.press_one(key) for each key in turn; an Err stops (unwrap)
RECURSIVE press_all(_, _)
press_all(report, keys) ==
    IF keys = << >> THEN [ok |-> TRUE, report |-> report]
    ELSE LET pressed == press_one(report, Head(keys)) IN
         IF ~pressed.ok THEN pressed
         ELSE press_all(pressed.report, Tail(keys))

\* InputReport::new() followed by the presses
CallPressOne ==
    /\ rep_in # NoValue
    /\ rep_out = NoValue
    /\ rep_out' = Some(press_all(InputReport_new, rep_in[1].keys))
    /\ UNCHANGED << listener_vars, n_sent, midi_chan, gadget_chan, controller_chan, gpc, cpc,
                    last_drain, relay_log, cb_in, cb_out, rep_in >>

SpecPress == PressInit /\ [][CallPressOne]_vars

\* the byte (0, 1, 2) and the bit of a button in the input report layout
ButtonByte(b) ==
    IF b \in { "Y", "X", "B", "A", "R", "ZR" } THEN 0
    ELSE IF b \in { "Minus", "Plus", "RightStick", "LeftStick", "Home", "Capture" } THEN 1
    ELSE 2
ButtonBit(b) == KEY_OFFSET[b]

\* bit k of byte i of the default fragment [0x00, 0x80, 0x00]
DefaultBit(i, k) == i = 1 /\ k = 7

\* byte i of the default OR-ed with the bit of every button of the set
RECURSIVE ExpectedBits(_, _, _)
ExpectedBits(i, buttons, k) ==
    IF k > 7 THEN 0
    ELSE (IF DefaultBit(i, k) \/ \E b \in buttons : ButtonByte(b) = i /\ ButtonBit(b) = k
          THEN 1 ELSE 0) + 2 * ExpectedBits(i, buttons, k + 1)
ExpectedReport(buttons) ==
    << ExpectedBits(0, buttons, 0), ExpectedBits(1, buttons, 0), ExpectedBits(2, buttons, 0) >>

KeySet(keys) == { keys[i] : i \in 1..Len(keys) }
Reversed(keys) == [ i \in 1..Len(keys) |-> keys[Len(keys) + 1 - i] ]

\* C12: pressing a sequence of buttons on a fresh InputReport gives the default
\* fragment OR-ed with the bit of each button of the set; so the result does
\* not depend on the order of the presses (here also: the reversed order),
\* pressing the buttons again changes nothing, and no press leaves
\* [0x00, 0x80, 0x00].
C12_EncodingAdditive ==
    rep_out # NoValue =>
        LET keys == rep_in[1].keys IN
        /\ rep_out[1].ok
        /\ rep_out[1].report = ExpectedReport(KeySet(keys))
        /\ press_all(InputReport_new, Reversed(keys)) = rep_out[1]
        /\ press_all(rep_out[1].report, keys) = rep_out[1]
        /\ keys = << >> => rep_out[1].report = << 0, 128, 0 >>
        /\ \A i \in 1..Len(keys) :
             rep_out[1].report[ButtonByte(keys[i]) + 1] =
               BitOr(rep_out[1].report[ButtonByte(keys[i]) + 1], Shl1(ButtonBit(keys[i])))

\* C12 witness: Y, Plus and Y again give [0x01, 0x82, 0x00]
C12_Witness ==
    /\ rep_out # NoValue
    /\ rep_in[1].keys = << "Y", "Plus", "Y" >>
    /\ rep_out[1].report = << 1, 130, 0 >>


-----------------------------------------------------------------------------
(* The listener on its own: callbacks one after another, the receiver of the
   note-state channel alive and nothing draining it *)

\* callbacks in a run of the listener
MaxCalls == 4

\* messages delivered: presses and releases of the notes 0x00, 0x06 and 0x12
\* on several channels, a ControlChange and a one-byte message
ListenerMessages ==
    { << 144, 0, 64 >>,      \* NoteOn  0x00, channel 0
      << 145, 0, 100 >>,     \* NoteOn  0x00, channel 1
      << 147, 6, 64 >>,      \* NoteOn  0x06, channel 3
      << 144, 18, 64 >>,     \* NoteOn  0x12, channel 0
      << 130, 0, 64 >>,      \* NoteOff 0x00, channel 2
      << 146, 6, 0 >>,       \* NoteOn  0x06 with velocity 0, channel 2
      << 128, 18, 0 >>,      \* NoteOff 0x12, channel 0
      << 176, 0, 0 >>,       \* ControlChange
      << 248 >> }            \* timing clock

\* cb_in is the sequence of messages delivered, cb_out the result of each call
ListenerInit ==
    /\ SystemInit
    /\ cb_in = << >>
    /\ cb_out = << >>
    /\ rep_in = NoValue
    /\ rep_out = NoValue

\* the callback closure, lines 51-79, as a whole: lock and clone, unlock,
\* process_callback with its two sends, lock and store on Ok, log on Err
CallbackOnce ==
    /\ lpc = "idle"
    /\ Len(cb_in) < MaxCalls
    /\ \E m \in ListenerMessages :
         LET persistent_messages == midi_note_on_messages
             result == process_callback(m, persistent_messages, rx_midi_alive)
         IN  /\ midi_note_on_messages' = IF result.ok THEN result.v ELSE midi_note_on_messages
             /\ midi_chan' = IF result.ok
                             THEN midi_chan \o << Published(result.sent[1]),
                                                  Published(result.sent[2]) >>
                             ELSE midi_chan
             /\ n_sent' = n_sent + Len(result.sent)
             /\ n_ok' = IF result.ok THEN n_ok + 1 ELSE n_ok
             /\ n_callbacks' = n_callbacks + 1
             /\ cb_in' = Append(cb_in, m)
             /\ cb_out' = Append(cb_out, [ok |-> result.ok, sent |-> result.sent,
                                          state |-> midi_note_on_messages'])
    /\ UNCHANGED << lock_held, lpc, message, persistent, return_messages,
                    gadget_chan, controller_chan, gpc, cpc, last_drain, relay_log, rep_in, rep_out >>

SpecListener == ListenerInit /\ [][CallbackOnce]_vars

\* the history of the listener, read off cb_in and cb_out
Calls == 1..Len(cb_in)
Channel(k) == cb_in[k][1] % 16
\* the note number of a message; -1 for a message without one
Note(k) == IF Len(cb_in[k]) >= 2 THEN cb_in[k][2] ELSE -1
StateBefore(k) == IF k = 1 THEN << >> ELSE cb_out[k - 1].state
StateAfter(k) == cb_out[k].state
PressOf(k, n) == IsPress(cb_in[k]) /\ Note(k) = n
ReleaseOf(k, n) == IsRelease(cb_in[k]) /\ Note(k) = n
NoReleaseBetween(i, k, n) == \A j \in (i + 1)..(k - 1) : ~ReleaseOf(j, n)
HeldBefore(k, n) == \E i \in 1..(k - 1) : PressOf(i, n) /\ NoReleaseBetween(i, k, n)
EntriesOf(list, n) == { p \in 1..Len(list) : list[p].data_byte1 = n }

\* C13: the channel never partitions the state: when a NoteOn for note n on
\* one channel is followed (no release of n between) by a release of n on
\* another channel, the entry is removed; when it is followed by a NoteOn for n
\* on another channel, the set is unchanged and holds one entry for n.
C13_ChannelIgnored ==
    \A i, k \in Calls :
        (i < k /\ PressOf(i, Note(k)) /\ Channel(i) # Channel(k)
               /\ NoReleaseBetween(i, k, Note(k))) =>
            /\ HasNote(StateBefore(k), Note(k))
            /\ IsRelease(cb_in[k]) => ~HasNote(StateAfter(k), Note(k))
            /\ IsPress(cb_in[k]) =>
                 /\ StateAfter(k) = StateBefore(k)
                 /\ Cardinality(EntriesOf(StateAfter(k), Note(k))) = 1

\* C13 witness: note 0x00 pressed on channel 0 and again on channel 1 (one
\* entry), note 0x06 pressed, then note 0x00 released on channel 2
C13_Witness ==
    /\ cb_in = << << 144, 0, 64 >>, << 145, 0, 100 >>, << 147, 6, 64 >>, << 130, 0, 64 >> >>
    /\ Len(cb_out[2].state) = 1
    /\ Len(cb_out[3].state) = 2
    /\ Len(midi_note_on_messages) = 1
    /\ midi_note_on_messages[1].data_byte1 = 6


\* the calls that added note n: a press of n while n was not held
AddingCalls(n) == { k \in Calls : PressOf(k, n) /\ ~HeldBefore(k, n) }
Latest(S) == CHOOSE k \in S : \A j \in S : j <= k

\* C16: after any sequence of messages the entries are in first-seen order: an
\* entry precedes another exactly when its note's most recent adding NoteOn
\* was processed before the other's; a NoteOn for a held note leaves the list
\* as it is, and a release removes its note and keeps the order of the others.
C16_FirstSeenOrder ==
    /\ \A p, q \in 1..Len(midi_note_on_messages) :
         LET a == midi_note_on_messages[p].data_byte1
             b == midi_note_on_messages[q].data_byte1
         IN  /\ AddingCalls(a) # {}
             /\ p < q <=> Latest(AddingCalls(a)) < Latest(AddingCalls(b))
    /\ \A k \in Calls :
         /\ (IsPress(cb_in[k]) /\ HeldBefore(k, Note(k))) => StateAfter(k) = StateBefore(k)
         /\ IsRelease(cb_in[k]) => StateAfter(k) = WithoutNote(StateBefore(k), Note(k))

\* C16 witness: 0x00 pressed, 0x06 pressed, 0x00 released and pressed again:
\* the list is 0x06, 0x00
C16_Witness ==
    /\ cb_in = << << 144, 0, 64 >>, << 147, 6, 64 >>, << 130, 0, 64 >>, << 145, 0, 100 >> >>
    /\ Len(midi_note_on_messages) = 2
    /\ midi_note_on_messages[1].data_byte1 = 6
    /\ midi_note_on_messages[2].data_byte1 = 0
    /\ cb_out[2].state[1].data_byte1 = 0

-----------------------------------------------------------------------------
(* MidiMessageData::new on its own: every status byte, a few data bytes *)

ParseDataBytes == { 0, 64, 127 }

ParseInit ==
    /\ SystemInit
    /\ \E i \in [byte0 : Byte, byte1 : ParseDataBytes, byte2 : ParseDataBytes] :
         cb_in = Some(i)
    /\ cb_out = NoValue
    /\ rep_in = NoValue
    /\ rep_out = NoValue

\* the call
CallMidiMessageDataNew ==
    /\ cb_in # NoValue
    /\ cb_out = NoValue
    /\ cb_out' = Some(MidiMessageData_new(cb_in[1].byte0, cb_in[1].byte1, cb_in[1].byte2))
    /\ UNCHANGED << listener_vars, n_sent, midi_chan, gadget_chan, controller_chan, gpc, cpc,
                    last_drain, relay_log, cb_in, rep_in, rep_out >>

SpecParse == ParseInit /\ [][CallMidiMessageDataNew]_vars

\* the kind a status high nibble stands for (0x8 NoteOff .. 0xE PitchBend)
KindOfNibble(h) ==
    << "NoteOff", "NoteOn", "PolyphonicPressure", "ControlChange",
       "ProgramChange", "ChannelPressure", "PitchBend" >>[h - 7]

\* C14: for a status byte with high nibble in 0x8..0xE, MidiMessageData::new
\* succeeds with the kind of the high nibble, the channel equal to the low
\* nibble of byte0 and the two data bytes; for any other high nibble it fails.
C14_ParsedFields ==
    cb_out # NoValue =>
        LET byte0 == cb_in[1].byte0 IN
        IF byte0 \div 16 \in 8..14
        THEN /\ cb_out[1].ok
             /\ cb_out[1].v.status_byte = KindOfNibble(byte0 \div 16)
             /\ cb_out[1].v.data_byte1 = cb_in[1].byte1
             /\ cb_out[1].v.data_byte2 = cb_in[1].byte2
             /\ "channel" \in DOMAIN cb_out[1].v
             /\ cb_out[1].v.channel = byte0 % 16
        ELSE ~cb_out[1].ok


-----------------------------------------------------------------------------
(* The two relay loops on their own, from the start of their threads, with
   every frame read from and handed to a device recorded in relay_log *)

\* the listener when the loops start: no message yet, or one NoteOn for note
\* 0x06 handled (the set stored and published twice)
RelayInit ==
    /\ \E held \in { << >>, << NoteOnData(6) >> } :
         /\ midi_note_on_messages = held
         /\ midi_chan = [ i \in 1..(2 * Len(held)) |-> [snapshot |-> held, event |-> 1] ]
         /\ n_callbacks = Len(held)
         /\ n_ok = Len(held)
         /\ n_sent = 2 * Len(held)
    /\ lock_held = FALSE
    /\ lpc = "idle"
    /\ message = << >>
    /\ persistent = << >>
    /\ return_messages = << >>
    /\ gadget_chan = << >>
    /\ controller_chan = << >>
    /\ gpc = "open"
    /\ cpc = "open"
    /\ last_drain = NoDrain
    /\ relay_log = Some(EmptyLog)
    /\ HarnessIdle

RelayNext ==
    \/ Gadget_open
    \/ Gadget_drain
    \/ Gadget_read
    \/ Controller_open
    \/ Controller_drain
    \/ Controller_read

SpecRelay == RelayInit /\ [][RelayNext]_vars

\* the four logs
GadgetRead == relay_log[1].gadget_read
ControllerRead == relay_log[1].controller_read
ControllerHanded == [ i \in 1..Len(relay_log[1].controller_written) |->
                        relay_log[1].controller_written[i].frame ]
GadgetHanded == [ i \in 1..Len(relay_log[1].gadget_written) |->
                    relay_log[1].gadget_written[i].frame ]
\* the frames the device took, in the order of the writes
FramesOf(log) == LET done == SelectSeq(log, LAMBDA e : e.written)
                 IN  [ i \in 1..Len(done) |-> done[i].frame ]
ControllerWritten == FramesOf(relay_log[1].controller_written)
GadgetWritten == FramesOf(relay_log[1].gadget_written)

\* C17: a tick of either loop removes at most one frame from its inbound
\* channel: a running loop takes a frame only at its drain step, once per
\* tick, and takes the head; the frames behind it stay queued in their order.
C17_OneFramePerTick ==
    /\ [][ (gpc' # "dead" /\ Len(gadget_chan') < Len(gadget_chan)) =>
             /\ gpc = "drain" /\ gpc' = "read"
             /\ gadget_chan' = Tail(gadget_chan) ]_vars
    /\ [][ (cpc' # "dead" /\ Len(controller_chan') < Len(controller_chan)) =>
             /\ cpc = "drain" /\ cpc' = "read"
             /\ controller_chan' = Tail(controller_chan) ]_vars
    /\ [][ (gpc = "read" /\ gpc' = "drain") => Len(gadget_chan') >= Len(gadget_chan) ]_vars
    /\ [][ (cpc = "read" /\ cpc' = "drain") =>
             Len(controller_chan') >= Len(controller_chan) ]_vars
    /\ [][ (gpc = "drain" /\ gpc' = "read" /\ gadget_chan # << >>) =>
             /\ gadget_chan' = Tail(gadget_chan)
             /\ Len(relay_log'[1].gadget_written) = Len(relay_log[1].gadget_written) + 1 ]_vars
    /\ [][ (cpc = "drain" /\ cpc' = "read" /\ controller_chan # << >>) =>
             /\ controller_chan' = Tail(controller_chan)
             /\ Len(relay_log'[1].controller_written) =
                  Len(relay_log[1].controller_written) + 1 ]_vars

\* C17 witness: the gadget loop has drained one frame of a backlog of three
\* and the two behind it are still queued
C17_Witness ==
    /\ gpc = "read"
    /\ Len(GadgetHanded) = 1
    /\ Len(gadget_chan) = 2
    /\ << GadgetHanded[1] >> \o gadget_chan = ControllerRead
    /\ gadget_chan[1] # gadget_chan[2]


IsPrefix(a, b) == Len(a) <= Len(b) /\ \A i \in 1..Len(a) : a[i] = b[i]
Rest(a, n) == [ i \in 1..(Len(a) - n) |-> a[n + i] ]
\* frame f is frame g, apart from bytes 3-5 when g is a 0x30 frame
SameButButtons(f, g) ==
    /\ Len(f) = Len(g)
    /\ \A i \in 1..Len(g) : (g[1] # INPUT_REPORT \/ i \notin { 4, 5, 6 }) => f[i] = g[i]
RECURSIVE IsSubsequence(_, _)
IsSubsequence(a, b) ==
    IF a = << >> THEN TRUE
    ELSE IF b = << >> THEN FALSE
    ELSE IF Head(a) = Head(b) THEN IsSubsequence(Tail(a), Tail(b))
    ELSE IsSubsequence(a, Tail(b))

\* C18: the relay keeps order and content in both directions: the frames
\* handed to the controller device are, one for one and unmodified, the first
\* frames read from the gadget device, the rest being queued in their order;
\* the frames handed to the gadget device are, one for one and apart from
\* bytes 3-5 of 0x30 frames, the first frames read from the controller device,
\* the rest being queued in their order; so the frames each device took are
\* frames read from the other, in the order read, none twice.
C18_RelayKeepsOrder ==
    /\ IsPrefix(ControllerHanded, GadgetRead)
    /\ cpc # "dead" => ControllerHanded \o controller_chan = GadgetRead
    /\ IsSubsequence(ControllerWritten, GadgetRead)
    /\ Len(GadgetHanded) <= Len(ControllerRead)
    /\ \A i \in 1..Len(GadgetHanded) : SameButButtons(GadgetHanded[i], ControllerRead[i])
    /\ gpc # "dead" => gadget_chan = Rest(ControllerRead, Len(GadgetHanded))
    /\ Len(GadgetWritten) <= Len(GadgetHanded)

\* C18 witness: two different frames went each way, in the order read, and
\* the devices took all four; the 0x30 frame got the held note's button bytes
C18_Witness ==
    /\ Len(GadgetRead) = 2
    /\ GadgetRead[1] # GadgetRead[2]
    /\ ControllerWritten = GadgetRead
    /\ Len(ControllerRead) = 2
    /\ ControllerRead[1][1] = INPUT_REPORT
    /\ ControllerRead[2][1] # INPUT_REPORT
    /\ Len(GadgetWritten) = 2
    /\ GadgetWritten[1] # ControllerRead[1]
    /\ GadgetWritten[2] = ControllerRead[2]

\* C19: a loop whose send finds the receiver dropped stops: the step that read
\* a frame while the sibling loop was dead ends the loop, and a loop that has
\* ended reads and writes nothing more.
C19_FailedSendStopsLoop ==
    /\ [][ (Len(relay_log'[1].gadget_read) > Len(relay_log[1].gadget_read)
              /\ ~rx_controller_alive) => gpc' = "dead" ]_vars
    /\ [][ (Len(relay_log'[1].controller_read) > Len(relay_log[1].controller_read)
              /\ ~rx_gadget_alive) => cpc' = "dead" ]_vars
    /\ [][ gpc = "dead" =>
             /\ gpc' = "dead"
             /\ relay_log'[1].gadget_read = relay_log[1].gadget_read
             /\ relay_log'[1].gadget_written = relay_log[1].gadget_written ]_vars
    /\ [][ cpc = "dead" =>
             /\ cpc' = "dead"
             /\ relay_log'[1].controller_read = relay_log[1].controller_read
             /\ relay_log'[1].controller_written = relay_log[1].controller_written ]_vars

\* C19 witness: the gadget loop forwarded one frame, the controller loop
\* failed to open its device, and the gadget loop's second send ended it
C19_Witness ==
    /\ cpc = "dead"
    /\ gpc = "dead"
    /\ Len(GadgetRead) = 2
    /\ Len(ControllerRead) = 0

\* C20: a loop whose non-blocking receive finds the channel disconnected (no
\* frame queued and the sibling loop, which holds the sender, dead) stops at
\* that step.
C20_DisconnectedIsFatal ==
    /\ [][ (gpc = "drain" /\ gpc' # "drain" /\ gadget_chan = << >> /\ ~tx_gadget_alive) =>
             gpc' = "dead" ]_vars
    /\ [][ (cpc = "drain" /\ cpc' # "drain" /\ controller_chan = << >>
              /\ ~tx_controller_alive) => cpc' = "dead" ]_vars


\* the result of the device read of a loop's last tick, until its next drain
GadgetResult == relay_log[1].gadget_result
ControllerResult == relay_log[1].controller_result
ReadFailed(result) == result # NoValue /\ ~result[1].ok

\* C21: in both loops a device read that returns would-block is not logged as
\* an error, a read that fails for another reason is logged, and in both cases
\* nothing is forwarded and the loop proceeds to its next tick.
C21_ReadErrorsHandled ==
    /\ [](ReadFailed(GadgetResult) =>
            /\ GadgetResult[1].logged = (GadgetResult[1].kind # "WouldBlock")
            /\ gpc = "drain")
    /\ [](ReadFailed(ControllerResult) =>
            /\ ControllerResult[1].logged = (ControllerResult[1].kind # "WouldBlock")
            /\ cpc = "drain")
    /\ [][ (relay_log'[1].gadget_result # relay_log[1].gadget_result
              /\ ReadFailed(relay_log'[1].gadget_result)) =>
             /\ controller_chan' = controller_chan
             /\ relay_log'[1].gadget_read = relay_log[1].gadget_read ]_vars
    /\ [][ (relay_log'[1].controller_result # relay_log[1].controller_result
              /\ ReadFailed(relay_log'[1].controller_result)) =>
             /\ gadget_chan' = gadget_chan
             /\ relay_log'[1].controller_read = relay_log[1].controller_read ]_vars


\* the positions of the frames the gadget loop wrote with other bytes than the
\* controller sent, and of the 0x30 frames among the frames it wrote
AlteredFrames == { i \in 1..Len(GadgetHanded) : GadgetHanded[i] # ControllerRead[i] }
ReportsBefore(i) == Cardinality({ j \in 1..(i - 1) : ControllerRead[j][1] = INPUT_REPORT })

\* C27: each published snapshot is consumed by at most one 0x30 frame and the
\* gadget loop keeps no memory of it: the frames written with other bytes than
\* the controller sent are as many as the snapshots taken from the channel,
\* the two snapshots of the one MIDI event alter at most two frames, and a
\* 0x30 frame drained after they are used up is written exactly as the
\* controller sent it although the note is still held.
C27_SnapshotUsedOnce ==
    /\ Cardinality(AlteredFrames) <= n_sent
    /\ n_sent = 2 * n_ok
    /\ gpc # "dead" => Cardinality(AlteredFrames) + Len(midi_chan) = n_sent
    /\ \A i \in 1..Len(GadgetHanded) :
         /\ i \in AlteredFrames => ControllerRead[i][1] = INPUT_REPORT
         /\ ReportsBefore(i) >= n_sent => GadgetHanded[i] = ControllerRead[i]

\* C27 witness: three 0x30 frames were written while one note is held; the
\* first two carry the note's button and the third the controller's bytes
C27_Witness ==
    /\ midi_note_on_messages # << >>
    /\ Len(GadgetHanded) = 3
    /\ \A i \in 1..3 : ControllerRead[i][1] = INPUT_REPORT
    /\ AlteredFrames = {1, 2}
    /\ GadgetHanded[3] = ControllerRead[3]
    /\ midi_chan = << >>


\* the byte positions the gadget loop indexes in a frame it drained
\* (controller_data[0], [3], [4], [5]), counted from one
IndexedBytes == {1, 4, 5, 6}

\* C28: every frame on either relay channel has exactly 64 bytes, so the
\* bytes the gadget loop indexes exist in every frame it drains, every frame
\* handed to a device write has 64 bytes, and no drain step ends a loop.
C28_FramesAre64Bytes ==
    /\ [](\A i \in 1..Len(gadget_chan) :
             /\ Len(gadget_chan[i]) = 64
             /\ IndexedBytes \subseteq DOMAIN gadget_chan[i])
    /\ [](\A i \in 1..Len(controller_chan) : Len(controller_chan[i]) = 64)
    /\ [](\A i \in 1..Len(GadgetHanded) : Len(GadgetHanded[i]) = 64)
    /\ [](\A i \in 1..Len(ControllerHanded) : Len(ControllerHanded[i]) = 64)
    /\ [][ gpc = "drain" => gpc' # "dead" ]_vars

\* C28 witness: a 0x30 frame went through the overwrite of bytes 3-5 and was
\* handed to the gadget write while frames wait on both channels
C28_Witness ==
    /\ gadget_chan # << >>
    /\ controller_chan # << >>
    /\ 1 \in AlteredFrames
    /\ gpc = "read"


-----------------------------------------------------------------------------
(* The two loops under fair scheduling, from a backlog: both devices are
   open, the gadget loop found its channel empty and read one frame, and the
   controller loop read two frames in the meantime, so two frames wait for
   the gadget loop and one for the controller loop.  Each loop is a thread of
   its own (main.rs:67-75) whose body only makes non-blocking calls
   (try_recv, a non-blocking device read, send on an unbounded channel) and
   sleeps 1 ms, so a live loop takes its next step again and again. *)

ReadOk == Some([ok |-> TRUE, kind |-> None, logged |-> FALSE])

BacklogInit ==
    /\ midi_note_on_messages = << >>
    /\ midi_chan = << >>
    /\ n_callbacks = 0
    /\ n_ok = 0
    /\ n_sent = 0
    /\ lock_held = FALSE
    /\ lpc = "idle"
    /\ message = << >>
    /\ persistent = << >>
    /\ return_messages = << >>
    /\ gpc = "drain"
    /\ cpc = "drain"
    /\ last_drain = NoDrain
    /\ \E f1 \in ControllerFrames, f2 \in ControllerFrames, g \in GadgetFrames :
         /\ gadget_chan = << f1, f2 >>
         /\ controller_chan = << g >>
         /\ relay_log = Some([EmptyLog EXCEPT !.controller_read = << f1, f2 >>,
                                              !.gadget_read = << g >>,
                                              !.controller_result = ReadOk,
                                              !.gadget_result = ReadOk])
    /\ HarnessIdle

LoopNext ==
    \/ Gadget_drain
    \/ Gadget_read
    \/ Controller_drain
    \/ Controller_read

LoopFairness ==
    /\ WF_vars(Gadget_drain)
    /\ WF_vars(Gadget_read)
    /\ WF_vars(Controller_drain)
    /\ WF_vars(Controller_read)

SpecRelayFair == BacklogInit /\ [][LoopNext]_vars /\ LoopFairness

\* C24: under fair scheduling, and with no channel closed, the n-th frame one
\* loop forwarded is eventually dequeued by the other loop and handed to its
\* device write; and a loop always has its next step enabled and completes
\* every tick, whatever the other loop does.
C24_ForwardedFramesArrive ==
    /\ \A n \in 1..MaxReads :
         /\ (Len(ControllerRead) >= n) ~>
              (Len(GadgetHanded) >= n /\ GadgetHanded[n] = ControllerRead[n])
         /\ (Len(GadgetRead) >= n) ~>
              (Len(ControllerHanded) >= n /\ ControllerHanded[n] = GadgetRead[n])
    /\ [](gpc # "dead" /\ cpc # "dead")
    /\ [](gpc = "drain" => ENABLED Gadget_drain)
    /\ [](gpc = "read" => ENABLED Gadget_read)
    /\ [](cpc = "drain" => ENABLED Controller_drain)
    /\ [](cpc = "read" => ENABLED Controller_read)
    /\ (gpc = "drain") ~> (gpc = "read")
    /\ (cpc = "drain") ~> (cpc = "read")

\* C24 witness: every frame read was written by the other loop, the fourth
\* one a frame the controller loop forwarded into an empty channel
C24_Witness ==
    /\ Len(ControllerRead) = 3
    /\ Len(GadgetRead) = 1
    /\ GadgetHanded = ControllerRead
    /\ ControllerHanded = GadgetRead
    /\ gadget_chan = << >>
    /\ controller_chan = << >>

-----------------------------------------------------------------------------
(* The listener and the two loops under fair scheduling.  The listener has
   already been called once with a message it ignores (the timing clock
   0xF8), which leaves everything else as it was when the threads started.
   A callback that has started runs to its end (it runs on the thread of the
   MIDI connection, midi.rs:51-79); whether another MIDI message arrives is
   up to the player. *)

NotesInit ==
    /\ midi_note_on_messages = << >>
    /\ lock_held = FALSE
    /\ lpc = "idle"
    /\ message = << >>
    /\ persistent = << >>
    /\ return_messages = << >>
    /\ midi_chan = << >>
    /\ gadget_chan = << >>
    /\ controller_chan = << >>
    /\ gpc = "drain"
    /\ cpc = "drain"
    /\ n_callbacks = 1
    /\ n_ok = 0
    /\ n_sent = 0
    /\ last_drain = NoDrain
    /\ relay_log = NoValue
    /\ HarnessIdle

NotesFairness ==
    /\ WF_vars(Callback_unlock)
    /\ WF_vars(Callback_process)
    /\ WF_vars(Callback_send2)
    /\ WF_vars(Callback_store)
    /\ WF_vars(Callback_return)
    /\ LoopFairness

SpecNotesFair == NotesInit /\ [][Next]_vars /\ NotesFairness

\* the bit of note n's button in bytes 3-5 of a frame
ButtonBitSet(frame, n) ==
    LET b == pressed_button(NoteOnData(n)).v
    IN  (frame[4 + ButtonByte(b)] \div (2 ^ ButtonBit(b))) % 2 = 1

\* the callback holds a NoteOn with non-zero velocity for note n, which is
\* not in the state it cloned, and its snapshots will carry event number e
PressOfNewNote(e, n) ==
    /\ lpc = "cloned"
    /\ n_ok + 1 = e
    /\ IsPress(message)
    /\ message[2] = n
    /\ ~HasNote(persistent, n)

\* the gadget loop handed to its device write a 0x30 frame merged with a
\* snapshot of event e, with the bit of note n's button set
WrittenWithButton(e, n) ==
    /\ DrainMerged
    /\ DrainReceived[1] = INPUT_REPORT
    /\ last_drain.event = e
    /\ ButtonBitSet(DrainWritten, n)

====
